---- MODULE Spec2Model ----
(***************************************************************************)
(* Calendar App API: the events table, the Event entity model, the         *)
(* operation handlers and the two request pipelines of the repository      *)
(* (the openapi-backend dispatch of src/app.js and the validateRequest     *)
(* middleware of src/middleware/validation.js).                            *)
(***************************************************************************)
EXTENDS Integers, Sequences, FiniteSets, TLC

VARIABLES store, now, res, cachedSpec, file, objects, call,
          proc, effects, pending, migrations

vars == <<store, now, res, cachedSpec, file, objects, call,
          proc, effects, pending, migrations>>

\* the process (server socket and connection pool), the requests in flight
\* and the list of applied migrations
sysVars == <<proc, pending, migrations>>

\* the state of src/utils/openapi.js and of the calls made on the library
\* functions: untouched by the request handlers
libVars == <<cachedSpec, file, objects, call, sysVars>>

(***************************************************************************)
(* Bounds of the model.                                                    *)
(***************************************************************************)
\* the clock shows the instants 0..MaxClock
MaxClock == 1
\* the process receives at most MaxSignals termination signals
MaxSignals == 2
\* a validation run reports 1..MaxErrors schema violations
MaxErrors == 2
\* the contract file is parsed into a new document at most MaxObjects times
MaxObjects == 3

(***************************************************************************)
(* Values.                                                                 *)
(***************************************************************************)
\* JSON null / SQL NULL
Null == "<null>"
\* no error was thrown by the storage call
NoError == [type |-> "-", code |-> "-", data |-> "-"]
\* placeholder of a response field that does not apply
None == "-"

Ids == {"evt_a", "evt_b"}

Instants == 0..(MaxClock + 1)

\* Date.prototype.toISOString: the canonical UTC text with milliseconds
toISOString(n) == "T" \o ToString(n) \o ".000Z"

\* the same instant written without the milliseconds, as clients do
ShortISO(n) == "T" \o ToString(n) \o "Z"

\* the texts that denote instant n
TextsOf(n) == {toISOString(n), ShortISO(n)}

\* the instant each date-time text denotes
InstantOf == [s \in UNION {TextsOf(n) : n \in Instants} |->
                CHOOSE n \in Instants : s \in TextsOf(n)]

\* what a timestamp column keeps of a date-time text: the instant it denotes
ToTimestamp(s) == InstantOf[s]

\* a timestamp no clock reading of the model equals: a caller's own value
CallerStamp == ShortISO(MaxClock + 1)

DateColumns == {"startDate", "endDate", "createdAt", "updatedAt"}
NullableColumns == {"description", "location"}
Columns == {"title"} \cup NullableColumns \cup DateColumns
InternalFields == {"createdAt", "updatedAt"}
ClientFields == {"title", "description", "startDate", "endDate", "location"}

\* f with the keys of g added or overwritten (object spread / Object.assign)
Merge(f, g) ==
  [k \in (DOMAIN f) \cup (DOMAIN g) |-> IF k \in DOMAIN g THEN g[k] ELSE f[k]]

\* f without the keys in ks
Without(f, ks) == [k \in (DOMAIN f) \ ks |-> f[k]]

(***************************************************************************)
(* Event entity model (src/models/Event.js).                               *)
(***************************************************************************)
\* `!this.id`: an id that is missing, null or the empty string counts as absent
HasId(m) == "id" \in DOMAIN m /\ m["id"] \notin {"", Null}

\* Event.$beforeInsert at clock reading t, with gen the next random identifier
beforeInsert(m, t, gen) ==
  LET stamped == Merge(m, [createdAt |-> toISOString(t), updatedAt |-> toISOString(t)])
  IN  IF HasId(m) THEN stamped ELSE Merge(stamped, [id |-> gen])

\* an update hook that stamps createdAt as well
beforeUpdateRestamping(m, t) ==
  Merge(m, [createdAt |-> toISOString(t), updatedAt |-> toISOString(t)])

\* Event.$beforeUpdate at clock reading t
beforeUpdate(m, t) == Merge(m, [updatedAt |-> toISOString(t)])

\* a serializer that blanks the internal fields after removing the nulls
toJSONBlankingInternal(m) ==
  LET json == Without(m, {k \in DOMAIN m : m[k] = Null})
  IN  [k \in DOMAIN json |-> IF k \in InternalFields THEN Null ELSE json[k]]

\* a serializer that removes the null-valued fields only
toJSONKeepingInternal(m) == Without(m, {k \in DOMAIN m : m[k] = Null})

\* a serializer that removes the internal fields only
toJSONKeepingNulls(m) == Without(m, InternalFields)

\* Event.toJSON: the internal fields and the null-valued fields are removed
toJSON(m) ==
  LET json == Without(m, InternalFields)
  IN  Without(json, {k \in DOMAIN json : json[k] = Null})

(***************************************************************************)
(* The events table (src/migrations/..._create_events_table.js) and the    *)
(* storage calls the handlers make on it.                                  *)
(***************************************************************************)
\* the value column c takes from model m: timestamp columns keep the instant
ColumnValue(m, c) ==
  IF c \in DateColumns THEN ToTimestamp(m[c]) ELSE m[c]

\* an INSERT that writes the required columns only
ToRowRequiredOnly(m) ==
  [c \in Columns |-> IF c \in DOMAIN m /\ m[c] # Null /\ c \notin NullableColumns
                       THEN ColumnValue(m, c) ELSE Null]

\* the row an INSERT of model m writes: columns the model lacks are NULL
ToRow(m) ==
  [c \in Columns |-> IF c \in DOMAIN m /\ m[c] # Null THEN ColumnValue(m, c) ELSE Null]

\* the model a SELECT builds from the row stored under id: timestamps come
\* back as dates, which JSON renders with toISOString
Fetch(id, row) ==
  Merge([c \in Columns |-> IF c \in DateColumns THEN toISOString(row[c]) ELSE row[c]],
        [id |-> id])

\* table with the row under key from moved to key to
MoveKey(table, from, to) ==
  [k \in ((DOMAIN table) \ {from}) \cup {to} |-> IF k = to THEN table[from] ELSE table[k]]

\* the error PostgreSQL raises on a duplicate primary key
UniqueViolation == [type |-> "undefined", code |-> "23505", data |-> None]

\* the error objects a storage call can reject with
ErrorObjects ==
  [type : {"ValidationError", "undefined"}, code : {"23505", "08006", "undefined"},
   data : {"startDate is required"}]

\* an insert that overwrites the row on a key conflict (ON CONFLICT ... MERGE)
InsertOrMerge(table, body, t, gen, inj) ==
  LET m == beforeInsert(body, t, gen)
  IN  IF inj # NoError
        THEN [err |-> inj, found |-> FALSE, out |-> <<>>, key |-> None, table |-> table]
      ELSE [err |-> NoError, found |-> TRUE, out |-> m, key |-> m["id"],
            table |-> [k \in (DOMAIN table) \cup {m["id"]} |->
                         IF k = m["id"] THEN ToRow(m) ELSE table[k]]]

\* an insert that leaves the stored row on a key conflict and reports success
\* (ON CONFLICT DO NOTHING)
InsertIgnoringConflict(table, body, t, gen, inj) ==
  LET m == beforeInsert(body, t, gen)
  IN  IF inj # NoError
        THEN [err |-> inj, found |-> FALSE, out |-> <<>>, key |-> None, table |-> table]
      ELSE [err |-> NoError, found |-> TRUE, out |-> m, key |-> m["id"],
            table |-> [k \in (DOMAIN table) \cup {m["id"]} |->
                         IF k \in DOMAIN table THEN table[k] ELSE ToRow(m)]]

\* Event.query().insert(body): validation, $beforeInsert, then the INSERT;
\* inj is the error the call rejects with before reaching the table, if any
\* key is the primary key the INSERT was issued with
Insert(table, body, t, gen, inj) ==
  LET m == beforeInsert(body, t, gen)
  IN  IF inj # NoError
        THEN [err |-> inj, found |-> FALSE, out |-> <<>>, key |-> None, table |-> table]
      ELSE IF m["id"] \in DOMAIN table
        THEN [err |-> UniqueViolation, found |-> FALSE, out |-> <<>>, key |-> m["id"],
              table |-> table]
      ELSE [err |-> NoError, found |-> TRUE, out |-> m, key |-> m["id"],
            table |-> [k \in (DOMAIN table) \cup {m["id"]} |->
                         IF k = m["id"] THEN ToRow(m) ELSE table[k]]]

\* the row after an UPDATE ... SET of the columns model m carries
PatchRow(row, m) ==
  [c \in Columns |-> IF c \in DOMAIN m THEN (IF m[c] = Null THEN Null ELSE ColumnValue(m, c))
                     ELSE row[c]]

\* the key the patched row is stored under: the id column is set like any other
PatchedKey(id, m) == IF "id" \in DOMAIN m THEN m["id"] ELSE id

\* Event.query().findById(id)
FindById(table, id, inj) ==
  IF inj # NoError THEN [err |-> inj, found |-> FALSE, out |-> <<>>, table |-> table]
  ELSE IF id \in DOMAIN table
    THEN [err |-> NoError, found |-> TRUE, out |-> Fetch(id, table[id]), table |-> table]
  ELSE [err |-> NoError, found |-> FALSE, out |-> <<>>, table |-> table]

\* Event.query().patchAndFetchById(id, body): validation, $beforeUpdate, the
\* UPDATE ... WHERE id = id, then a SELECT by the same id
PatchAndFetchById(table, id, body, t, inj) ==
  LET m == beforeUpdate(body, t)
      to == PatchedKey(id, m)
  IN  IF inj # NoError THEN [err |-> inj, found |-> FALSE, out |-> <<>>, table |-> table]
      ELSE IF id \notin DOMAIN table
        THEN [err |-> NoError, found |-> FALSE, out |-> <<>>, table |-> table]
      ELSE IF to # id /\ to \in DOMAIN table
        THEN [err |-> UniqueViolation, found |-> FALSE, out |-> <<>>, table |-> table]
      ELSE LET patched == [table EXCEPT ![id] = PatchRow(table[id], m)]
               after == MoveKey(patched, id, to)
           IN  FindById(after, id, NoError)

\* Event.query().deleteById(id): out is the number of rows deleted
DeleteById(table, id, inj) ==
  IF inj # NoError THEN [err |-> inj, found |-> FALSE, out |-> 0, table |-> table]
  ELSE IF id \in DOMAIN table
    THEN [err |-> NoError, found |-> TRUE, out |-> 1,
          table |-> [k \in (DOMAIN table) \ {id} |-> table[k]]]
  ELSE [err |-> NoError, found |-> FALSE, out |-> 0, table |-> table]

\* the orders in which the keys of a table can be listed
Listings(table) ==
  {s \in [1..Cardinality(DOMAIN table) -> DOMAIN table] :
     \A i, j \in DOMAIN s : i # j => s[i] # s[j]}

\* the rows ordered by startDate descending
OrderByStartDateDesc(table) ==
  {s \in Listings(table) :
     \A i, j \in DOMAIN s : i < j => table[s[i]]["startDate"] >= table[s[j]]["startDate"]}

\* Event.query().orderBy('startDate', 'asc'): the rows in an order the
\* database may return them in (rows with equal startDate in any order)
OrderByStartDateAsc(table) ==
  {s \in Listings(table) :
     \A i, j \in DOMAIN s : i < j => table[s[i]]["startDate"] <= table[s[j]]["startDate"]}

(***************************************************************************)
(* Requests.                                                               *)
(***************************************************************************)
\* a create body with the required fields only, its start written without
\* milliseconds
MinimalBody ==
  [title |-> "Standup", startDate |-> ShortISO(0), endDate |-> ShortISO(1)]

\* a create body that also carries an optional field and the storage-only
\* fields, its dates written in the canonical form
FullBody ==
  [title |-> "Standup", description |-> "daily", startDate |-> toISOString(1),
   endDate |-> toISOString(1), createdAt |-> CallerStamp, updatedAt |-> CallerStamp]

\* the bodies of a create: without an id, or with a client-chosen one
CreateBodies ==
  {MinimalBody, FullBody} \cup {Merge(b, [id |-> i]) : b \in {MinimalBody, FullBody}, i \in Ids}

\* the (partial) bodies of an update
UpdateBodies ==
  {[startDate |-> ShortISO(1)], [createdAt |-> CallerStamp]}
    \cup {[id |-> i] : i \in Ids}

\* an error that is neither a validation failure nor a unique violation
DbError == [type |-> "undefined", code |-> "undefined", data |-> "startDate is required"]

\* a connection failure reported by the database driver
ConnectionError == [type |-> "undefined", code |-> "08006", data |-> "startDate is required"]

\* a validation failure of the storage layer
ValidationError == [type |-> "ValidationError", code |-> "undefined", data |-> "startDate is required"]

\* the clock readings new Date() can give a call made now: time may have passed
Readings == {t \in {now, now + 1} : t <= MaxClock}

(***************************************************************************)
(* Responses: what res.status(..).json(..) wrote, and for which call.      *)
(***************************************************************************)
Response(via, op, servedBy, answer, id, reqBody, err, calls) ==
  [via |-> via, op |-> op, servedBy |-> servedBy, status |-> answer.status,
   body |-> answer.body, id |-> id, reqBody |-> reqBody, err |-> err, calls |-> calls,
   violations |-> <<>>]

NotFoundMessage(id) == "Event with ID '" \o id \o "' not found"

\* a list message that always uses the plural
FoundMessagePlural(n) ==
  IF n > 0 THEN "Found " \o ToString(n) \o " events" ELSE "No events found"

\* the message of the list response for n events
FoundMessage(n) ==
  IF n > 0 THEN "Found " \o ToString(n) \o " event" \o (IF n = 1 THEN "" ELSE "s")
  ELSE "No events found"

\* a 500 body without the message
InternalErrorBare(text) == [error |-> "Internal server error"]

InternalError(text) == [error |-> "Internal server error", message |-> text]

(***************************************************************************)
(* Operation handlers (src/handlers/events.js): what each answers to the   *)
(* result r of its storage call.                                           *)
(***************************************************************************)
getCalendarEventsAnswer(r) ==
  IF r.err = NoError
    THEN [status |-> 200,
          body |-> [events |-> [i \in DOMAIN r.out |-> toJSON(r.out[i])],
                    message |-> FoundMessage(Cardinality(DOMAIN r.out))]]
  ELSE [status |-> 500, body |-> InternalError("Failed to fetch events")]

\* a create handler that tests the error code before the error type
createCalendarEventAnswerCodeFirst(r) ==
  IF r.err = NoError
    THEN [status |-> 201,
          body |-> [id |-> r.out["id"], message |-> "Event created successfully",
                    event |-> toJSON(r.out)]]
  ELSE IF r.err.code = "23505"
    THEN [status |-> 409,
          body |-> [error |-> "Conflict", message |-> "Event with this ID already exists"]]
  ELSE IF r.err.type = "ValidationError"
    THEN [status |-> 400, body |-> [error |-> "Validation failed", details |-> r.err.data]]
  ELSE [status |-> 500, body |-> InternalError("Failed to create event")]

\* a create handler that puts the error's content into its 500 body
createCalendarEventAnswerLeaking(r) ==
  IF r.err = NoError
    THEN [status |-> 201,
          body |-> [id |-> r.out["id"], message |-> "Event created successfully",
                    event |-> toJSON(r.out)]]
  ELSE IF r.err.type = "ValidationError"
    THEN [status |-> 400, body |-> [error |-> "Validation failed", details |-> r.err.data]]
  ELSE IF r.err.code = "23505"
    THEN [status |-> 409,
          body |-> [error |-> "Conflict", message |-> "Event with this ID already exists"]]
  ELSE [status |-> 500, body |-> InternalError(r.err.code)]

createCalendarEventAnswer(r) ==
  IF r.err = NoError
    THEN [status |-> 201,
          body |-> [id |-> r.out["id"], message |-> "Event created successfully",
                    event |-> toJSON(r.out)]]
  ELSE IF r.err.type = "ValidationError"
    THEN [status |-> 400, body |-> [error |-> "Validation failed", details |-> r.err.data]]
  ELSE IF r.err.code = "23505"
    THEN [status |-> 409,
          body |-> [error |-> "Conflict", message |-> "Event with this ID already exists"]]
  ELSE [status |-> 500, body |-> InternalError("Failed to create event")]

getCalendarEventAnswer(id, r) ==
  IF r.err # NoError
    THEN [status |-> 500, body |-> InternalError("Failed to fetch event")]
  ELSE IF ~r.found
    THEN [status |-> 404, body |-> [error |-> "Not found", message |-> NotFoundMessage(id)]]
  ELSE [status |-> 200,
        body |-> [event |-> toJSON(r.out), message |-> "Event retrieved successfully"]]

updateCalendarEventAnswer(id, r) ==
  IF r.err # NoError
    THEN IF r.err.type = "ValidationError"
           THEN [status |-> 400,
                 body |-> [error |-> "Validation failed", details |-> r.err.data]]
         ELSE [status |-> 500, body |-> InternalError("Failed to update event")]
  ELSE IF ~r.found
    THEN [status |-> 404, body |-> [error |-> "Not found", message |-> NotFoundMessage(id)]]
  ELSE [status |-> 200,
        body |-> [id |-> r.out["id"], message |-> "Event updated successfully",
                  event |-> toJSON(r.out)]]

\* a delete handler that does not look at the number of rows deleted
deleteCalendarEventAnswerUnchecked(id, r) ==
  IF r.err # NoError
    THEN [status |-> 500, body |-> InternalError("Failed to delete event")]
  ELSE [status |-> 200, body |-> [id |-> id, message |-> "Event deleted successfully"]]

deleteCalendarEventAnswer(id, r) ==
  IF r.err # NoError
    THEN [status |-> 500, body |-> InternalError("Failed to delete event")]
  ELSE IF r.out = 0
    THEN [status |-> 404, body |-> [error |-> "Not found", message |-> NotFoundMessage(id)]]
  ELSE [status |-> 200, body |-> [id |-> id, message |-> "Event deleted successfully"]]

\* the results Event.query().orderBy('startDate', 'asc') can resolve to
OrderedQuery(table, inj) ==
  IF inj # NoError THEN {[err |-> inj, out |-> <<>>]}
  ELSE {[err |-> NoError, out |-> [i \in DOMAIN s |-> Fetch(s[i], table[s[i]])]] :
          s \in OrderByStartDateAsc(table)}

(***************************************************************************)
(* What a handler run does, in order: storage calls, console.error lines   *)
(* and responses written with res.status(..).json(..).                     *)
(***************************************************************************)
Query == [do |-> "query", status |-> 0]
Log == [do |-> "console.error", status |-> 0]
Write(status) == [do |-> "res.status.json", status |-> status]

\* a handler that goes on after the `return res.status(404).json(..)` of its
\* not-found branch and writes the success response as well
TryCatchFallingThrough(calls, err, status) ==
  [i \in 1..calls |-> Query]
    \o (IF err # NoError THEN <<Log>> ELSE <<>>)
    \o (IF status = 404 THEN <<Write(404), Write(200)>> ELSE <<Write(status)>>)

\* the body every handler has: try { await the storage call (calls of them);
\* write the response, the not-found one with a return } catch (error)
\* { console.error(..); write the error response }. err is what the awaited
\* call rejected with, status the status of the one response the path writes
TryCatch(calls, err, status) ==
  [i \in 1..calls |-> Query]
    \o (IF err # NoError THEN <<Log>> ELSE <<>>)
    \o <<Write(status)>>

(***************************************************************************)
(* The handlers as steps of the program; via tells who called.             *)
(***************************************************************************)
getCalendarEvents(via, inj) ==
  \E r \in OrderedQuery(store, inj) :
    /\ res' = Response(via, "getCalendarEvents", "getCalendarEvents",
                       getCalendarEventsAnswer(r), None, <<>>, r.err, 1)
    /\ effects' = TryCatch(1, r.err, getCalendarEventsAnswer(r).status)
    /\ UNCHANGED <<store, now, libVars>>

createCalendarEvent(via, body, t, gen, inj) ==
  LET r == Insert(store, body, t, gen, inj)
  IN  /\ store' = r.table
      /\ now' = t
      /\ res' = Response(via, "createCalendarEvent", "createCalendarEvent",
                         createCalendarEventAnswer(r), r.key, body, r.err, 1)
      /\ effects' = TryCatch(1, r.err, createCalendarEventAnswer(r).status)
      /\ UNCHANGED libVars

getCalendarEvent(via, id, inj) ==
  LET r == FindById(store, id, inj)
  IN  /\ res' = Response(via, "getCalendarEvent", "getCalendarEvent",
                         getCalendarEventAnswer(id, r), id, <<>>, r.err, 1)
      /\ effects' = TryCatch(1, r.err, getCalendarEventAnswer(id, r).status)
      /\ UNCHANGED <<store, now, libVars>>

updateCalendarEvent(via, id, body, t, inj) ==
  LET r == PatchAndFetchById(store, id, body, t, inj)
  IN  /\ store' = r.table
      /\ now' = t
      /\ res' = Response(via, "updateCalendarEvent", "updateCalendarEvent",
                         updateCalendarEventAnswer(id, r), id, body, r.err, 1)
      /\ effects' = TryCatch(1, r.err, updateCalendarEventAnswer(id, r).status)
      /\ UNCHANGED libVars

deleteCalendarEvent(via, id, inj) ==
  LET r == DeleteById(store, id, inj)
  IN  /\ store' = r.table
      /\ UNCHANGED <<now, libVars>>
      /\ res' = Response(via, "deleteCalendarEvent", "deleteCalendarEvent",
                         deleteCalendarEventAnswer(id, r), id, <<>>, r.err, 1)
      /\ effects' = TryCatch(1, r.err, deleteCalendarEventAnswer(id, r).status)

\* src/handlers/general.js
getApiInfo(via) ==
  /\ res' = Response(via, "getApiInfo", "getApiInfo",
                     [status |-> 200,
                      body |-> [message |-> "Calendar App API", version |-> "1.0.0",
                                status |-> "running"]],
                     None, <<>>, NoError, 0)
  /\ effects' = TryCatch(0, NoError, 200)
  /\ UNCHANGED <<store, now, libVars>>

\* src/handlers/health.js
getHealthStatus(via, t) ==
  /\ res' = Response(via, "getHealthStatus", "getHealthStatus",
                     [status |-> 200,
                      body |-> [status |-> "healthy", timestamp |-> toISOString(t)]],
                     None, <<>>, NoError, 0)
  /\ effects' = TryCatch(0, NoError, 200)
  /\ now' = t
  /\ UNCHANGED <<store, libVars>>

(***************************************************************************)
(* Dispatch layer of src/app.js: openapi-backend with validate: true.      *)
(***************************************************************************)
\* the operations of the HTTP surface: those a handler function is written for
Operations ==
  {"getApiInfo", "getHealthStatus", "getCalendarEvents", "createCalendarEvent",
   "getCalendarEvent", "updateCalendarEvent", "deleteCalendarEvent", "getOpenAPISchema"}

\* the operations that take a request body
BodyOperations == {"createCalendarEvent", "updateCalendarEvent"}

\* the operation handlers api.register is given
Registered ==
  {"getApiInfo", "getHealthStatus", "getCalendarEvents", "createCalendarEvent"}

\* the errors the schema validator reports, one per violation
AjvErrors ==
  {[instancePath |-> "", schemaPath |-> "#/required",
    message |-> "must have required property 'title'", data |-> "undefined"],
   [instancePath |-> "/startDate", schemaPath |-> "#/properties/startDate/format",
    message |-> "must match format \"date-time\"", data |-> "invalid-date"]}

\* the violations of one request body: none when it conforms
ViolationLists ==
  UNION {[1..n -> AjvErrors] : n \in 0..MaxErrors}

\* the details entry written for one validator error
Detail(e) ==
  [field |-> IF e.instancePath # "" THEN e.instancePath ELSE e.schemaPath,
   message |-> e.message, rejectedValue |-> e.data]

\* validationFail of src/app.js; the 400 of validateRequest is the same
ValidationFailAnswer(errors) ==
  [status |-> 400,
   body |-> [error |-> "Validation failed",
             details |-> [i \in DOMAIN errors |-> Detail(errors[i])]]]

\* notFound of src/app.js
NotFoundAnswer(path) ==
  [status |-> 404, body |-> [error |-> "Route not found", path |-> path]]

\* notImplemented of src/app.js: the mock of the operation's success response
NotImplementedAnswer(op) ==
  [status |-> 200, body |-> [mock |-> op]]

\* unauthorizedHandler of src/app.js
UnauthorizedAnswer ==
  [status |-> 401, body |-> [error |-> "Unauthorized", message |-> "Authentication required"]]

\* the global error handler of src/app.js
GlobalErrorAnswer ==
  [status |-> 500,
   body |-> [error |-> "Something went wrong!", message |-> "Internal server error"]]

\* a response written by the dispatch layer itself; the global error handler
\* logs the error first
Dispatched(op, servedBy, answer, v) ==
  /\ res' = [Response("dispatch", op, servedBy, answer, None, <<>>, NoError, 0)
               EXCEPT !.violations = v]
  /\ effects' = (IF servedBy = "errorHandler" THEN <<Log>> ELSE <<>>)
                  \o <<Write(answer.status)>>
  /\ UNCHANGED <<store, now, libVars>>

\* the handler registered under op, called by the dispatch layer
Registration(op) ==
  CASE op = "getApiInfo" -> getApiInfo("dispatch")
    [] op = "getHealthStatus" -> \E t \in Readings : getHealthStatus("dispatch", t)
    [] op = "getCalendarEvents" ->
         \E inj \in {NoError, DbError} : getCalendarEvents("dispatch", inj)
    [] op = "createCalendarEvent" ->
         \E t \in Readings, gen \in Ids, inj \in {NoError, DbError} :
           createCalendarEvent("dispatch", MinimalBody, t, gen, inj)

\* api.handleRequest: route, validate, then the registered handler
HandleRequest ==
  \E op \in Operations \cup {None}, v \in ViolationLists :
    /\ v # <<>> => op \in BodyOperations
    /\ IF op = None
         THEN Dispatched(op, "notFound", NotFoundAnswer("/nonexistent"), v)
       ELSE IF v # <<>>
         THEN Dispatched(op, "validationFail", ValidationFailAnswer(v), v)
       ELSE IF op \notin Registered
         THEN Dispatched(op, "notImplemented", NotImplementedAnswer(op), v)
       ELSE Registration(op)

\* the dispatch layer calls unauthorizedHandler for an operation whose
\* security requirement the request does not meet
Unauthorized ==
  \E op \in Operations :
    Dispatched(op, "unauthorizedHandler", UnauthorizedAnswer, <<>>)

\* Express calls the global error handler with an error a middleware passed
\* to next: no operation is matched
GlobalErrorHandler ==
  Dispatched(None, "errorHandler", GlobalErrorAnswer, <<>>)

(***************************************************************************)
(* validateRequest of src/middleware/validation.js, mounted before the     *)
(* routes of the Express app.                                              *)
(***************************************************************************)
\* what the middleware does: answer 400 itself, or call next()
validateRequestOutcome(hasPathSpec, hasRequestSchema, throws, errors) ==
  IF ~hasPathSpec THEN "next"
  ELSE IF ~hasRequestSchema THEN "next"
  ELSE IF throws THEN "next"
  ELSE IF errors # <<>> THEN "validateRequest"
  ELSE "next"

ValidateRequest ==
  \E hasPathSpec \in BOOLEAN, hasRequestSchema \in BOOLEAN,
     throws \in BOOLEAN, v \in ViolationLists :
    /\ v # <<>> => hasPathSpec /\ hasRequestSchema
    /\ LET outcome == validateRequestOutcome(hasPathSpec, hasRequestSchema, throws, v)
           answer == IF outcome = "next" THEN [status |-> 200, body |-> [passed |-> TRUE]]
                     ELSE ValidationFailAnswer(v)
       IN  /\ res' = [Response("middleware", "route", outcome, answer, None, <<>>,
                                NoError, 0)
                        EXCEPT !.violations = v]
           /\ effects' = IF outcome = "validateRequest" THEN <<Write(400)>>
                         ELSE IF hasPathSpec /\ hasRequestSchema /\ throws THEN <<Log>>
                         ELSE <<>>
    /\ UNCHANGED <<store, now, libVars>>

(***************************************************************************)
(* The handlers called directly, as the exported functions they are.       *)
(***************************************************************************)
\* the errors the insert of a body is made to reject with
Injections(body) ==
  IF body = MinimalBody THEN {NoError} \cup ErrorObjects ELSE {NoError}

\* the identifiers Math.random can give a body
Generated(body) == IF HasId(body) THEN {None} ELSE Ids

GetCalendarEvents ==
  \E inj \in {NoError, DbError} : getCalendarEvents("direct", inj)

CreateCalendarEvent ==
  \E t \in Readings, body \in CreateBodies :
    \E gen \in Generated(body), inj \in Injections(body) :
      createCalendarEvent("direct", body, t, gen, inj)

GetCalendarEvent ==
  \E id \in Ids, inj \in {NoError, DbError, ConnectionError} :
    getCalendarEvent("direct", id, inj)

\* the errors the patch of a body is made to reject with
PatchInjections(body) ==
  IF body = [startDate |-> ShortISO(1)] THEN {NoError, ValidationError, DbError}
  ELSE {NoError}

UpdateCalendarEvent ==
  \E t \in Readings, id \in Ids, body \in UpdateBodies :
    \E inj \in PatchInjections(body) : updateCalendarEvent("direct", id, body, t, inj)

DeleteCalendarEvent ==
  \E id \in Ids, inj \in {NoError, DbError} : deleteCalendarEvent("direct", id, inj)

(***************************************************************************)
(* The contract store (src/utils/openapi.js): the parsed OpenAPI document  *)
(* is cached in cachedSpec; file is the contract file on disk.             *)
(***************************************************************************)
\* an object without keys
EmptyObject == [k \in {} |-> Null]

StringProperty == [type |-> "string"]
DateTimeProperty == [type |-> "string", format |-> "date-time"]

\* components.schemas.Event of the contract
EventSchema ==
  [type |-> "object",
   properties |-> [id |-> StringProperty, title |-> StringProperty,
                   description |-> StringProperty, startDate |-> DateTimeProperty,
                   endDate |-> DateTimeProperty],
   required |-> {"title", "startDate", "endDate"}]

\* another schema of the document
UserSchema ==
  [type |-> "object", properties |-> [id |-> StringProperty, name |-> StringProperty]]

\* an Event schema that declares no properties
BareEventSchema == [type |-> "object"]

\* the documents the contract file can hold
FullDocument ==
  [openapi |-> "3.0.0",
   components |-> [schemas |-> [Event |-> EventSchema, User |-> UserSchema]]]

BareDocument ==
  [openapi |-> "3.0.0", components |-> [schemas |-> [Event |-> BareEventSchema]]]

DocumentWithoutEvent ==
  [openapi |-> "3.0.0", components |-> [schemas |-> [User |-> UserSchema]]]

DocumentWithoutSchemas == [openapi |-> "3.0.0", components |-> EmptyObject]

DocumentWithoutComponents == [openapi |-> "3.0.0"]

Documents ==
  {FullDocument, BareDocument, DocumentWithoutEvent, DocumentWithoutSchemas,
   DocumentWithoutComponents}

\* the states of the contract file: absent, not YAML, or a document
Files ==
  {[kind |-> "missing", doc |-> EmptyObject], [kind |-> "malformed", doc |-> EmptyObject]}
    \cup {[kind |-> "yaml", doc |-> d] : d \in Documents}

SchemaNames == {"Event", "User", "NoSuchSchema"}

\* cachedSpec = null: reference 0 is the null reference
NoSpec == [ref |-> 0, doc |-> EmptyObject]

\* yaml.load(fs.readFileSync(openApiPath, 'utf8')): the error of the read or
\* of the parse is thrown as it is
ReadAndParse(f) ==
  IF f.kind = "missing"
    THEN [threw |-> TRUE, message |-> "ENOENT: no such file or directory", doc |-> EmptyObject]
  ELSE IF f.kind = "malformed"
    THEN [threw |-> TRUE, message |-> "YAMLException: bad indentation of a mapping entry",
          doc |-> EmptyObject]
  ELSE [threw |-> FALSE, message |-> None, doc |-> f.doc]

\* a load that swallows the error and caches an empty document
loadOpenAPISpecSwallowing(cache, f, n) ==
  IF cache # NoSpec
    THEN [threw |-> FALSE, message |-> None, value |-> cache, cache |-> cache,
          read |-> FALSE, objects |-> n]
  ELSE LET parsed == ReadAndParse(f)
           spec == [ref |-> n + 1, doc |-> parsed.doc]
       IN  [threw |-> FALSE, message |-> None, value |-> spec, cache |-> spec,
            read |-> TRUE, objects |-> n + 1]

\* a load that reads and parses the file on every call
loadOpenAPISpecUncached(cache, f, n) ==
  LET parsed == ReadAndParse(f)
      spec == [ref |-> n + 1, doc |-> parsed.doc]
  IN  IF parsed.threw
        THEN [threw |-> TRUE, message |-> parsed.message, value |-> NoSpec,
              cache |-> cache, read |-> TRUE, objects |-> n]
      ELSE [threw |-> FALSE, message |-> None, value |-> spec, cache |-> spec,
            read |-> TRUE, objects |-> n + 1]

\* loadOpenAPISpec with the cache, the file and n objects allocated so far:
\* what it returns or throws, the cache after it, whether it read the file
loadOpenAPISpec(cache, f, n) ==
  IF cache # NoSpec
    THEN [threw |-> FALSE, message |-> None, value |-> cache, cache |-> cache,
          read |-> FALSE, objects |-> n]
  ELSE LET parsed == ReadAndParse(f)
           spec == [ref |-> n + 1, doc |-> parsed.doc]
       IN  IF parsed.threw
             THEN [threw |-> TRUE, message |-> parsed.message, value |-> NoSpec,
                   cache |-> cache, read |-> TRUE, objects |-> n]
           ELSE [threw |-> FALSE, message |-> None, value |-> spec, cache |-> spec,
                 read |-> TRUE, objects |-> n + 1]

\* spec.components?.schemas?.[schemaName]
HasSchema(doc, schemaName) ==
  /\ "components" \in DOMAIN doc
  /\ "schemas" \in DOMAIN doc["components"]
  /\ schemaName \in DOMAIN doc["components"]["schemas"]

\* a lookup without the optional chaining: spec.components.schemas[schemaName]
\* throws a TypeError when components or schemas is undefined
getOpenAPISchemaUnchained(cache, f, n, schemaName) ==
  LET loaded == loadOpenAPISpec(cache, f, n)
      doc == loaded.value.doc
  IN  IF loaded.threw
        THEN [loaded EXCEPT !.value = EmptyObject] @@ [defined |-> FALSE]
      ELSE IF "components" \notin DOMAIN doc \/ "schemas" \notin DOMAIN doc["components"]
        THEN [loaded EXCEPT !.value = EmptyObject, !.threw = TRUE,
                            !.message = "TypeError: Cannot read properties of undefined"]
               @@ [defined |-> FALSE]
      ELSE IF schemaName \in DOMAIN doc["components"]["schemas"]
        THEN [loaded EXCEPT !.value = doc["components"]["schemas"][schemaName]]
               @@ [defined |-> TRUE]
      ELSE [loaded EXCEPT !.value = EmptyObject] @@ [defined |-> FALSE]

\* getOpenAPISchema(schemaName): defined tells whether value is not undefined
getOpenAPISchema(cache, f, n, schemaName) ==
  LET loaded == loadOpenAPISpec(cache, f, n)
  IN  IF loaded.threw
        THEN [loaded EXCEPT !.value = EmptyObject] @@ [defined |-> FALSE]
      ELSE IF HasSchema(loaded.value.doc, schemaName)
        THEN [loaded EXCEPT !.value = loaded.value.doc["components"]["schemas"][schemaName]]
               @@ [defined |-> TRUE]
      ELSE [loaded EXCEPT !.value = EmptyObject] @@ [defined |-> FALSE]

\* a storage schema that also requires the storage-only fields
jsonSchemaRequiringInternal(cache, f, n) ==
  LET got == getOpenAPISchema(cache, f, n, "Event")
      eventSchema == got.value
      properties == IF "properties" \in DOMAIN eventSchema THEN eventSchema["properties"]
                    ELSE EmptyObject
      required == IF "required" \in DOMAIN eventSchema THEN eventSchema["required"] ELSE {}
  IN  IF got.threw THEN got
      ELSE IF ~got.defined
        THEN [got EXCEPT !.threw = TRUE,
                         !.message = "Event schema not found in OpenAPI specification"]
      ELSE [got EXCEPT !.value =
              Merge(eventSchema,
                    [properties |-> Merge(properties, [createdAt |-> DateTimeProperty,
                                                       updatedAt |-> DateTimeProperty]),
                     required |-> required \cup InternalFields])]

\* a jsonSchema that adds the storage-only properties to the cached Event
\* schema itself (eventSchema.properties.createdAt = ..) and returns it
jsonSchemaInPlace(cache, f, n) ==
  LET got == getOpenAPISchema(cache, f, n, "Event")
      eventSchema == got.value
      properties == IF "properties" \in DOMAIN eventSchema THEN eventSchema["properties"]
                    ELSE EmptyObject
      dbSchema == Merge(eventSchema,
                        [properties |-> Merge(properties, [createdAt |-> DateTimeProperty,
                                                           updatedAt |-> DateTimeProperty])])
  IN  IF got.threw THEN got
      ELSE IF ~got.defined
        THEN [got EXCEPT !.threw = TRUE,
                         !.message = "Event schema not found in OpenAPI specification"]
      ELSE [got EXCEPT !.value = dbSchema,
                       !.cache = [ref |-> got.cache.ref,
                                  doc |-> Merge(got.cache.doc,
                                    [components |-> Merge(got.cache.doc["components"],
                                       [schemas |-> Merge(got.cache.doc["components"]["schemas"],
                                                          [Event |-> dbSchema])])])]]

\* Event.jsonSchema: the Event schema with the storage-only properties added
jsonSchema(cache, f, n) ==
  LET got == getOpenAPISchema(cache, f, n, "Event")
      eventSchema == got.value
      properties == IF "properties" \in DOMAIN eventSchema THEN eventSchema["properties"]
                    ELSE EmptyObject
  IN  IF got.threw THEN got
      ELSE IF ~got.defined
        THEN [got EXCEPT !.threw = TRUE,
                         !.message = "Event schema not found in OpenAPI specification"]
      ELSE [got EXCEPT !.value =
              Merge(eventSchema,
                    [properties |-> Merge(properties, [createdAt |-> DateTimeProperty,
                                                       updatedAt |-> DateTimeProperty])])]

\* a call of a library function, as the caller sees it
Call(fn, arg, r) ==
  [fn |-> fn, arg |-> arg, threw |-> r.threw, message |-> r.message,
   defined |-> r.defined, value |-> r.value, read |-> r.read]

\* a call that returns value without touching the file
Returned(value) ==
  [threw |-> FALSE, message |-> None, defined |-> TRUE, value |-> value, read |-> FALSE]

NoCall == Call(None, None, Returned(EmptyObject))

LoadOpenAPISpec ==
  LET r == loadOpenAPISpec(cachedSpec, file, objects)
  IN  /\ r.objects <= MaxObjects
      /\ call' = Call("loadOpenAPISpec", None, r @@ [defined |-> ~r.threw])
      /\ cachedSpec' = r.cache
      /\ objects' = r.objects
      /\ UNCHANGED <<store, now, res, file, effects, sysVars>>

GetOpenAPISchema ==
  \E schemaName \in SchemaNames :
    LET r == getOpenAPISchema(cachedSpec, file, objects, schemaName)
    IN  /\ r.objects <= MaxObjects
        /\ call' = Call("getOpenAPISchema", schemaName, r)
        /\ cachedSpec' = r.cache
        /\ objects' = r.objects
        /\ UNCHANGED <<store, now, res, file, effects, sysVars>>

JsonSchema ==
  LET r == jsonSchema(cachedSpec, file, objects)
  IN  /\ r.objects <= MaxObjects
      /\ call' = Call("jsonSchema", None, r)
      /\ cachedSpec' = r.cache
      /\ objects' = r.objects
      /\ UNCHANGED <<store, now, res, file, effects, sysVars>>

\* clearCache
ClearCache ==
  /\ cachedSpec' = NoSpec
  /\ call' = Call("clearCache", None, Returned(EmptyObject))
  /\ UNCHANGED <<store, now, res, file, objects, effects, sysVars>>

\* the contract file is replaced, removed or damaged between two calls
ReplaceFile ==
  \E f \in Files \ {file} :
    /\ file' = f
    /\ call' = Call("replaceFile", None, Returned(EmptyObject))
    /\ UNCHANGED <<store, now, res, cachedSpec, objects, effects, sysVars>>

(***************************************************************************)
(* The raw-schema handler (src/handlers/general.js) and the handlers       *)
(* called one by one on a table of one event.                              *)
(***************************************************************************)
\* the error loadOpenAPISpec threw, as the catch block receives it
LoadError(message) == [type |-> "undefined", code |-> "undefined", data |-> message]

\* getOpenAPISchema of src/handlers/general.js: answers the contract document
getOpenAPISchemaHandler(via) ==
  LET r == loadOpenAPISpec(cachedSpec, file, objects)
      err == IF r.threw THEN LoadError(r.message) ELSE NoError
      answer == IF r.threw
                  THEN [status |-> 500,
                        body |-> InternalError("Failed to load OpenAPI schema")]
                ELSE [status |-> 200, body |-> r.value.doc]
  IN  /\ r.objects <= MaxObjects
      /\ res' = Response(via, "getOpenAPISchema", "getOpenAPISchema", answer, None, <<>>,
                         err, 0)
      /\ effects' = TryCatch(0, err, answer.status)
      /\ call' = Call("loadOpenAPISpec", None, r @@ [defined |-> ~r.threw])
      /\ cachedSpec' = r.cache
      /\ objects' = r.objects
      /\ UNCHANGED <<store, now, file, sysVars>>

GetOpenAPISchemaHandler == getOpenAPISchemaHandler("direct")

GetApiInfo == getApiInfo("direct")

GetHealthStatus == \E t \in Readings : getHealthStatus("direct", t)

\* a create of one event under a client-chosen id
CreateOne ==
  \E t \in Readings, inj \in {NoError, ValidationError, DbError} :
    createCalendarEvent("direct", Merge(MinimalBody, [id |-> "evt_a"]), t, None, inj)

\* an update of the start date
UpdateOne ==
  \E id \in Ids, t \in Readings, inj \in {NoError, ValidationError, DbError} :
    updateCalendarEvent("direct", id, [startDate |-> ShortISO(1)], t, inj)

\* the contract file is removed between two calls
RemoveFile ==
  /\ file.kind = "yaml"
  /\ file' = [kind |-> "missing", doc |-> EmptyObject]
  /\ call' = Call("replaceFile", None, Returned(EmptyObject))
  /\ UNCHANGED <<store, now, res, cachedSpec, objects, effects, sysVars>>

(***************************************************************************)
(* The hooks and the serializer of the Event model, called on a record.    *)
(***************************************************************************)
\* the values a record can carry at its id: none, an identifier, '' or null
IdFields == {EmptyObject} \cup {[id |-> i] : i \in {"evt_a", "", Null}}

\* records: request bodies, rows as read back with their null columns, and
\* the model a create of the required fields alone has inserted
Records ==
  {Merge(b, i) : b \in {MinimalBody, FullBody, Merge(FullBody, [location |-> Null]),
                        [startDate |-> ShortISO(1)],
                        beforeInsert(MinimalBody, 0, "evt_b")},
                 i \in IdFields}

BeforeInsert ==
  \E m \in Records, t \in Readings, gen \in Ids :
    /\ call' = Call("$beforeInsert", m, Returned(beforeInsert(m, t, gen)))
    /\ now' = t
    /\ UNCHANGED <<store, res, cachedSpec, file, objects, effects, sysVars>>

BeforeUpdate ==
  \E m \in Records, t \in Readings :
    /\ call' = Call("$beforeUpdate", m, Returned(beforeUpdate(m, t)))
    /\ now' = t
    /\ UNCHANGED <<store, res, cachedSpec, file, objects, effects, sysVars>>

ToJSON ==
  \E m \in Records :
    /\ call' = Call("toJSON", m, Returned(toJSON(m)))
    /\ UNCHANGED <<store, now, res, cachedSpec, file, objects, effects, sysVars>>

(***************************************************************************)
(* The process (index.js, src/app.js): the pool made at module load, the   *)
(* listening server, and the SIGINT/SIGTERM handlers.                      *)
(***************************************************************************)
\* after require('./src/app') and app.listen(PORT): one pool, made by
\* Knex(dbConfig), and a server that accepts requests
NewProcess ==
  [listening |-> TRUE, pool |-> "open", pools |-> 1, awaiting |-> 0, exited |-> FALSE]

\* process.on('SIGINT' | 'SIGTERM'): the handler logs, starts knex.destroy()
\* and awaits it; nothing closes the server
Signal ==
  /\ ~proc.exited
  /\ proc.awaiting < MaxSignals
  /\ proc' = [proc EXCEPT !.pool = "destroying", !.awaiting = @ + 1]
  /\ call' = Call("signal", None, Returned(EmptyObject))
  /\ UNCHANGED <<store, now, res, cachedSpec, file, objects, effects, pending, migrations>>

\* knex.destroy() resolves and the awaiting handler calls process.exit(0)
PoolDestroyed ==
  /\ ~proc.exited
  /\ proc.pool = "destroying"
  /\ proc' = [proc EXCEPT !.pool = "destroyed", !.listening = FALSE, !.awaiting = 0,
                          !.exited = TRUE]
  /\ call' = Call("exit", None, Returned(EmptyObject))
  /\ UNCHANGED <<store, now, res, cachedSpec, file, objects, effects, pending, migrations>>

\* what a query gets from the pool: a pool being destroyed aborts the acquire
PoolOutcomes == IF proc.pool = "open" THEN {NoError} ELSE {DbError}

\* the listening server takes a request and runs its handler
Serve ==
  /\ proc.listening
  /\ \/ \E inj \in PoolOutcomes : getCalendarEvents("direct", inj)
     \/ \E t \in Readings, body \in CreateBodies, inj \in PoolOutcomes :
          \E gen \in Generated(body) : createCalendarEvent("direct", body, t, gen, inj)
     \/ \E id \in Ids, inj \in PoolOutcomes : deleteCalendarEvent("direct", id, inj)

(***************************************************************************)
(* The migrations (src/migrations), run one at a time by knex migrate:up   *)
(* and knex migrate:down.                                                  *)
(***************************************************************************)
\* the migration files, in the order knex applies them
Migrations == <<"20250731170339_create_events_table", "20250808161807_update_event_ids_to_uuid">>

\* the values uuidv4() returns
Uuids == {"uuid_1", "uuid_2"}

\* where('id', 'like', 'evt_%')
LikeEvt(id) == id \in Ids

\* the tables the up of a migration can leave: the first creates the (empty)
\* events table, the second gives every 'evt_' row a new UUID as its id
Up(name, table) ==
  IF name = Migrations[1] THEN {<<>>}
  ELSE LET old == {k \in DOMAIN table : LikeEvt(k)}
           kept == (DOMAIN table) \ old
       IN  {[k \in kept \cup {newId[o] : o \in old} |->
               IF k \in kept THEN table[k]
               ELSE table[CHOOSE o \in old : newId[o] = k]] :
              newId \in {f \in [old -> Uuids \ kept] :
                           \A o1, o2 \in old : f[o1] = f[o2] => o1 = o2}}

\* the table the down of a migration leaves: the first drops the events
\* table, the second only logs a warning
Down(name, table) ==
  IF name = Migrations[1] THEN <<>> ELSE table

\* the events table exists
TableExists == Len(migrations) >= 1

\* knex migrate:up: the next migration file not yet applied
MigrateUp ==
  /\ Len(migrations) < Len(Migrations)
  /\ LET name == Migrations[Len(migrations) + 1]
     IN  \E table \in Up(name, store) :
           /\ store' = table
           /\ migrations' = Append(migrations, name)
           /\ call' = Call("up", store, Returned(table))
  /\ UNCHANGED <<now, res, cachedSpec, file, objects, effects, proc, pending>>

\* knex migrate:down: the last migration applied
MigrateDown ==
  /\ Len(migrations) >= 1
  /\ LET name == migrations[Len(migrations)]
         table == Down(name, store)
     IN  /\ store' = table
         /\ migrations' = SubSeq(migrations, 1, Len(migrations) - 1)
         /\ call' = Call("down", store, Returned(table))
  /\ UNCHANGED <<now, res, cachedSpec, file, objects, effects, proc, pending>>

\* an event is created while the events table exists
AddEvent ==
  /\ TableExists
  /\ \E t \in Readings, gen \in Ids :
       createCalendarEvent("direct", MinimalBody, t, gen, NoError)

(***************************************************************************)
(* Configuration from the environment (src/config/database.js, index.js).  *)
(***************************************************************************)
\* a variable process.env does not have
Unset == "<unset>"
\* the value of a property that was assigned undefined
Undefined == "undefined"

\* the database variables: all unset, all set, or all set but the name
DbSettings ==
  {[DB_HOST |-> Unset, DB_PORT |-> Unset, DB_NAME |-> Unset, DB_USER |-> Unset,
    DB_PASSWORD |-> Unset],
   [DB_HOST |-> "custom-host", DB_PORT |-> "3306", DB_NAME |-> "custom_db",
    DB_USER |-> "custom_user", DB_PASSWORD |-> "custom_password"],
   [DB_HOST |-> "custom-host", DB_PORT |-> "3306", DB_NAME |-> Unset,
    DB_USER |-> "custom_user", DB_PASSWORD |-> "custom_password"]}

\* the environments process.env can be
Envs ==
  {Merge([PORT |-> p, NODE_ENV |-> n, DB_SSL |-> s], d) :
     p \in {Unset, "8080"},
     n \in {Unset, "development", "test", "production", "staging"},
     s \in {Unset, "true", "false", "TRUE"},
     d \in DbSettings}

\* process.env.X || d: an unset or empty variable gives d
OrDefault(x, d) == IF x \in {Unset, ""} THEN d ELSE x

\* process.env.X alone: an unset variable gives undefined
Plain(x) == IF x = Unset THEN Undefined ELSE x

SslOff == [enabled |-> FALSE]
SslOn == [enabled |-> TRUE, rejectUnauthorized |-> FALSE]

\* the config object of src/config/database.js
config(env) ==
  [development |->
     [client |-> "pg",
      connection |-> [host |-> OrDefault(env.DB_HOST, "localhost"),
                      port |-> OrDefault(env.DB_PORT, 5432),
                      database |-> OrDefault(env.DB_NAME, "calendar_app_dev"),
                      user |-> OrDefault(env.DB_USER, "postgres"),
                      password |-> OrDefault(env.DB_PASSWORD, "postgres")]],
   test |->
     [client |-> "pg",
      connection |-> [host |-> OrDefault(env.DB_HOST, "localhost"),
                      port |-> OrDefault(env.DB_PORT, 5432),
                      database |-> OrDefault(env.DB_NAME, "calendar_app_test"),
                      user |-> OrDefault(env.DB_USER, "postgres"),
                      password |-> OrDefault(env.DB_PASSWORD, "postgres")]],
   production |->
     [client |-> "pg",
      connection |-> [host |-> Plain(env.DB_HOST),
                      port |-> OrDefault(env.DB_PORT, 5432),
                      database |-> Plain(env.DB_NAME),
                      user |-> Plain(env.DB_USER),
                      password |-> Plain(env.DB_PASSWORD),
                      ssl |-> IF env.DB_SSL = "true" THEN SslOn ELSE SslOff]]]

\* module.exports.current = config[process.env.NODE_ENV || 'development']
current(env) ==
  LET name == OrDefault(env.NODE_ENV, "development")
  IN  IF name \in DOMAIN config(env) THEN config(env)[name] ELSE [client |-> Undefined]

\* require('./src/config/database') under an environment
RequireDatabaseConfig ==
  \E env \in Envs :
    /\ call' = Call("config/database", env,
                    Returned([config |-> config(env), current |-> current(env)]))
    /\ UNCHANGED <<store, now, res, cachedSpec, file, objects, effects, sysVars>>

\* index.js: the port the server listens on and the environment it logs
Listen ==
  \E env \in Envs :
    /\ call' = Call("index", env,
                    Returned([port |-> OrDefault(env.PORT, 3000),
                              environment |-> OrDefault(env.NODE_ENV, "development")]))
    /\ UNCHANGED <<store, now, res, cachedSpec, file, objects, effects, sysVars>>

(***************************************************************************)
(* Two createCalendarEvent requests in flight at once: each handler runs   *)
(* up to its await, the database executes the INSERT statements one at a   *)
(* time, and each handler goes on when its own statement has settled.      *)
(***************************************************************************)
Slots == {1, 2}

\* the body each of the two clients sends: different fields, any id
SlotBodies(s) ==
  {Merge(IF s = 1 THEN MinimalBody ELSE FullBody, [id |-> i]) : i \in Ids}

\* createCalendarEvent up to `await Event.query().insert(eventData)`
Receive ==
  \E s \in Slots \ DOMAIN pending : \E body \in SlotBodies(s) :
    /\ pending' = [k \in (DOMAIN pending) \cup {s} |->
                     IF k = s THEN [pc |-> "awaiting", body |-> body, t |-> now,
                                    err |-> NoError, out |-> <<>>, status |-> 0]
                     ELSE pending[k]]
    /\ call' = Call("createCalendarEvent", s, Returned(EmptyObject))
    /\ UNCHANGED <<store, now, res, cachedSpec, file, objects, effects, proc, migrations>>

\* the database executes the INSERT of one waiting request
Settle ==
  \E s \in DOMAIN pending, t \in Readings :
    /\ pending[s].pc = "awaiting"
    /\ LET r == Insert(store, pending[s].body, t, None, NoError)
       IN  /\ store' = r.table
           /\ now' = t
           /\ pending' = [pending EXCEPT ![s] = [pc |-> "settled", body |-> @.body, t |-> t,
                                                 err |-> r.err, out |-> r.out,
                                                 status |-> 0]]
    /\ call' = Call("insert", s, Returned(EmptyObject))
    /\ UNCHANGED <<res, cachedSpec, file, objects, effects, proc, migrations>>

\* createCalendarEvent after its await: the response of one settled request
Respond ==
  \E s \in DOMAIN pending :
    /\ pending[s].pc = "settled"
    /\ LET p == pending[s]
           r == [err |-> p.err, out |-> p.out]
           answer == createCalendarEventAnswer(r)
       IN  /\ res' = Response("direct", "createCalendarEvent", "createCalendarEvent",
                              answer, p.body["id"], p.body, p.err, 1)
           /\ effects' = TryCatch(1, p.err, answer.status)
           /\ pending' = [pending EXCEPT ![s].pc = "done", ![s].status = answer.status]
    /\ call' = Call("respond", s, Returned(EmptyObject))
    /\ UNCHANGED <<store, now, cachedSpec, file, objects, proc, migrations>>

(***************************************************************************)
(* cleanSchemaForAjv of src/middleware/validation.js, on a request schema  *)
(* without $ref, and the validation of a body against the cleaned schema.  *)
(***************************************************************************)
\* the keys removeOpenApiKeywords skips, in every object it walks
OpenApiKeywords == {"example", "examples", "description"}

\* the schema a property declares: a string of bounded length, written
\* with or without annotations
PropertySchemas ==
  {[type |-> "string", maxLength |-> 500],
   [type |-> "string", maxLength |-> 500, description |-> "free text",
    example |-> "Weekly sync"]}

\* the properties objects of a request schema
PropertyMaps ==
  {[n \in names |-> p] :
     names \in (SUBSET {"title", "description", "location"}) \ {{}},
     p \in PropertySchemas}

\* request schemas, with or without annotations of their own
RequestSchemas ==
  {Merge(a, [type |-> "object", properties |-> ps]) :
     a \in {EmptyObject, [description |-> "A calendar event", example |-> "-"]},
     ps \in PropertyMaps}

\* removeOpenApiKeywords on a property schema: an object whose values are
\* no objects
removeFromProperty(p) == Without(p, OpenApiKeywords)

\* removeOpenApiKeywords on the properties object: its keys, the property
\* names, go through the same test as keywords do
removeFromProperties(ps) ==
  LET result == Without(ps, OpenApiKeywords)
  IN  [n \in DOMAIN result |-> removeFromProperty(result[n])]

\* cleanSchemaForAjv(schema): removeOpenApiKeywords on a copy of the schema
cleanSchemaForAjv(schema) ==
  LET result == Without(schema, OpenApiKeywords)
  IN  [k \in DOMAIN result |->
         IF k = "properties" THEN removeFromProperties(result[k]) ELSE result[k]]

\* request bodies: each field given by the length of its text
Bodies == [title : {5, 501}, description : {5, 501}]

\* validate(req.body) of the compiled schema: one error for each body field
\* that a property of the schema declares and that is longer than maxLength
AjvValidate(schema, body) ==
  {n \in (DOMAIN body) \cap (DOMAIN schema["properties"]) :
     body[n] > schema["properties"][n]["maxLength"]}

\* extractSchema(pathSpec, method, 'request') on a request schema
CleanSchemaForAjv ==
  \E schema \in RequestSchemas :
    /\ call' = Call("cleanSchemaForAjv", schema, Returned(cleanSchemaForAjv(schema)))
    /\ UNCHANGED <<store, now, res, cachedSpec, file, objects, effects, sysVars>>

\* validateRequest on a route whose request schema is schema
ValidateBody ==
  \E schema \in RequestSchemas, body \in Bodies :
    LET errors == AjvValidate(cleanSchemaForAjv(schema), body)
        outcome == validateRequestOutcome(TRUE, TRUE, FALSE,
                                          IF errors = {} THEN <<>> ELSE <<errors>>)
    IN  /\ call' = Call("validateRequest", [schema |-> schema, body |-> body],
                        Returned([outcome |-> outcome, errors |-> errors]))
        /\ UNCHANGED <<store, now, res, cachedSpec, file, objects, effects, sysVars>>

(***************************************************************************)
(* Specifications: the handlers on the events table, and the two request   *)
(* pipelines.                                                              *)
(***************************************************************************)
Init ==
  /\ store = <<>>
  /\ now = 0
  /\ res = Response(None, None, None, [status |-> 0, body |-> <<>>], None, <<>>, NoError, 0)
  /\ cachedSpec = NoSpec
  /\ file = [kind |-> "yaml", doc |-> FullDocument]
  /\ objects = 0
  /\ call = NoCall
  /\ proc = NewProcess
  /\ effects = <<>>
  /\ pending = <<>>
  /\ migrations = Migrations

Next ==
  \/ GetCalendarEvents
  \/ CreateCalendarEvent
  \/ GetCalendarEvent
  \/ UpdateCalendarEvent
  \/ DeleteCalendarEvent

Spec == Init /\ [][Next]_vars

DispatchNext ==
  \/ HandleRequest
  \/ ValidateRequest

DispatchSpec == Init /\ [][DispatchNext]_vars

\* every writer of an error response: the request pipelines, the default
\* handlers, the global error handler and the handlers of the by-id operations
ErrorNext ==
  \/ HandleRequest
  \/ ValidateRequest
  \/ Unauthorized
  \/ GlobalErrorHandler
  \/ GetCalendarEvent
  \/ UpdateCalendarEvent
  \/ DeleteCalendarEvent

ErrorSpec == Init /\ [][ErrorNext]_vars

ProcNext ==
  \/ Signal
  \/ PoolDestroyed
  \/ Serve

ProcSpec == Init /\ [][ProcNext]_vars

\* every operation handler, called as the exported function it is
HandlerNext ==
  \/ GetCalendarEvents
  \/ CreateOne
  \/ GetCalendarEvent
  \/ UpdateOne
  \/ DeleteCalendarEvent
  \/ GetApiInfo
  \/ GetHealthStatus
  \/ GetOpenAPISchemaHandler
  \/ ClearCache
  \/ RemoveFile

HandlerSpec == Init /\ [][HandlerNext]_vars

MigrationNext ==
  \/ MigrateUp
  \/ MigrateDown
  \/ AddEvent

MigrationSpec == Init /\ [][MigrationNext]_vars

ConfigNext ==
  \/ RequireDatabaseConfig
  \/ Listen

ConfigSpec == Init /\ [][ConfigNext]_vars

RaceNext ==
  \/ Receive
  \/ Settle
  \/ Respond

RaceSpec == Init /\ [][RaceNext]_vars

CleanNext ==
  \/ CleanSchemaForAjv
  \/ ValidateBody

CleanSpec == Init /\ [][CleanNext]_vars

UtilNext ==
  \/ LoadOpenAPISpec
  \/ GetOpenAPISchema
  \/ JsonSchema
  \/ ClearCache
  \/ ReplaceFile
  \/ GetOpenAPISchemaHandler

UtilSpec == Init /\ [][UtilNext]_vars

ModelNext ==
  \/ BeforeInsert
  \/ BeforeUpdate
  \/ ToJSON

ModelSpec == Init /\ [][ModelNext]_vars

(***************************************************************************)
(* Properties of the request pipelines (DispatchSpec).                     *)
(***************************************************************************)
\* C1: a request that matches an operation having a handler function and
\* passes validation is answered by that operation's handler, never by
\* notFound or by the notImplemented mock.
C1_HandlerAnswersMatchedOperation ==
  (res.via = "dispatch" /\ res.op \in Operations /\ res.violations = <<>>)
    => res.servedBy = res.op

\* C2: a request whose body violates the declared schema is answered 400
\* "Validation failed" with one {field, message, rejectedValue} entry per
\* violation by the validation step itself, on every path of that step, and
\* is never passed on to a handler.
C2_InvalidBodyNeverPassesOn ==
  res.violations # <<>> =>
    /\ res.servedBy \in {"validationFail", "validateRequest"}
    /\ res.status = 400
    /\ res.body.error = "Validation failed"
    /\ DOMAIN res.body.details = DOMAIN res.violations
    /\ \A i \in DOMAIN res.violations :
         DOMAIN res.body.details[i] = {"field", "message", "rejectedValue"}

(***************************************************************************)
(* Properties of the handlers on the events table (Spec).                  *)
(***************************************************************************)
\* C3: the id of a stored event never changes: a key leaves the table only
\* by a successful delete of that id and enters it only by a successful
\* create under that id; an update never re-keys a row.
C3_IdNeverChanges ==
  [][ /\ \A k \in (DOMAIN store) \ (DOMAIN store') :
           res'.op = "deleteCalendarEvent" /\ res'.status = 200 /\ res'.id = k
      /\ \A k \in (DOMAIN store') \ (DOMAIN store) :
           res'.op = "createCalendarEvent" /\ res'.status = 201 /\ res'.id = k ]_vars

C5_UnknownIdIsNotFound ==
  [][ ( /\ res'.op \in {"getCalendarEvent", "updateCalendarEvent", "deleteCalendarEvent"}
        /\ res'.id \notin DOMAIN store )
      => /\ store' = store
         /\ res'.status # 200
         /\ res'.err = NoError
              => /\ res'.status = 404
                 /\ res'.body = [error |-> "Not found",
                                 message |-> "Event with ID '" \o res'.id \o "' not found"] ]_vars

\* C5 witness: a delete answered 404 while another event is stored
C5_Witness ==
  /\ res.op = "deleteCalendarEvent"
  /\ res.status = 404
  /\ res.id \notin DOMAIN store
  /\ store # <<>>

\* C6: a create whose id, supplied or generated, is the id of a stored
\* event answers 409 "Conflict" after one insert attempt and leaves the
\* table unchanged (when the insert is not rejected before reaching the
\* table).
C6_DuplicateIdIsConflict ==
  [][ ( /\ res'.op = "createCalendarEvent"
        /\ res'.err \in {NoError, UniqueViolation}
        /\ res'.id \in DOMAIN store )
      => /\ res'.status = 409
         /\ res'.body = [error |-> "Conflict", message |-> "Event with this ID already exists"]
         /\ res'.calls = 1
         /\ store' = store ]_vars

\* C6 witness: a create without an id answered 409: the generated id was taken
C6_Witness ==
  /\ res.op = "createCalendarEvent"
  /\ res.status = 409
  /\ ~HasId(res.reqBody)
  /\ res.id \in DOMAIN store

\* C7: create answers 201 {id, message, event} when the insert succeeds,
\* 400 with the storage layer's details when the error is a validation
\* failure (also when it carries code 23505), 409 when it is another error
\* with code 23505, and 500 for any other error.
C7_CreateStatusMapping ==
  res.op = "createCalendarEvent" =>
    /\ res.err = NoError =>
         /\ res.status = 201
         /\ DOMAIN res.body = {"id", "message", "event"}
         /\ res.body.message = "Event created successfully"
         /\ res.body.event["id"] = res.body.id
    /\ (res.err # NoError /\ res.err.type = "ValidationError") =>
         /\ res.status = 400
         /\ res.body = [error |-> "Validation failed", details |-> res.err.data]
    /\ (res.err # NoError /\ res.err.type # "ValidationError" /\ res.err.code = "23505") =>
         /\ res.status = 409
         /\ res.body.error = "Conflict"
    /\ (res.err # NoError /\ res.err.type # "ValidationError" /\ res.err.code # "23505") =>
         /\ res.status = 500
         /\ res.body = [error |-> "Internal server error", message |-> "Failed to create event"]

\* C7 witness: a create whose insert failed with a validation error that
\* also carries code 23505
C7_Witness ==
  /\ res.op = "createCalendarEvent"
  /\ res.err.type = "ValidationError"
  /\ res.err.code = "23505"
  /\ res.status = 400

C9_TimestampsNeverFromCaller ==
  [][ /\ (res'.op = "createCalendarEvent" /\ res'.status = 201) =>
           /\ store'[res'.body.id]["createdAt"] = now'
           /\ store'[res'.body.id]["updatedAt"] = now'
      /\ \A k \in (DOMAIN store) \cap (DOMAIN store') :
           store'[k]["createdAt"] = store[k]["createdAt"] ]_vars

\* C10: a list whose query does not fail answers 200 with every stored
\* event exactly once, the startDate of each element not later than that
\* of the next.
C10_ListIsCompleteAndOrdered ==
  (res.op = "getCalendarEvents" /\ res.err = NoError) =>
    /\ res.status = 200
    /\ Cardinality(DOMAIN res.body.events) = Cardinality(DOMAIN store)
    /\ {res.body.events[i]["id"] : i \in DOMAIN res.body.events} = DOMAIN store
    /\ \A i \in DOMAIN res.body.events :
         LET e == res.body.events[i]
         IN  /\ e["title"] = store[e["id"]]["title"]
             /\ ToTimestamp(e["startDate"]) = store[e["id"]]["startDate"]
             /\ ToTimestamp(e["endDate"]) = store[e["id"]]["endDate"]
    /\ \A i, j \in DOMAIN res.body.events :
         i < j => ToTimestamp(res.body.events[i]["startDate"])
                    <= ToTimestamp(res.body.events[j]["startDate"])

\* C10 witness: a list of two events with different starts, the one with
\* the greater id first
C10_Witness ==
  /\ res.op = "getCalendarEvents"
  /\ res.status = 200
  /\ Cardinality(DOMAIN res.body.events) = 2
  /\ res.body.events[1]["id"] = "evt_b"
  /\ res.body.events[1]["startDate"] # res.body.events[2]["startDate"]

\* C11: the message of a successful list response is "No events found" for
\* no event, "Found 1 event" for one, and "Found n events" for n >= 2.
C11_ListMessageCountsEvents ==
  (res.op = "getCalendarEvents" /\ res.status = 200) =>
    LET n == Cardinality(DOMAIN res.body.events)
    IN  /\ n = 0 => res.body.message = "No events found"
        /\ n = 1 => res.body.message = "Found 1 event"
        /\ n >= 2 => res.body.message = "Found " \o ToString(n) \o " events"

\* C11 witness: a list of exactly one event, answered in the singular
C11_Witness ==
  /\ res.op = "getCalendarEvents"
  /\ res.status = 200
  /\ Cardinality(DOMAIN res.body.events) = 1
  /\ res.body.message = "Found 1 event"

C13_UnexpectedErrorIsGeneric500 ==
  ( /\ res.op \in {"getCalendarEvents", "createCalendarEvent", "getCalendarEvent",
                   "updateCalendarEvent", "deleteCalendarEvent"}
    /\ res.err # NoError
    /\ res.err.type # "ValidationError"
    /\ res.op = "createCalendarEvent" => res.err.code # "23505" )
  => /\ res.status = 500
     /\ res.body =
          [error |-> "Internal server error",
           message |-> CASE res.op = "getCalendarEvents" -> "Failed to fetch events"
                         [] res.op = "createCalendarEvent" -> "Failed to create event"
                         [] res.op = "getCalendarEvent" -> "Failed to fetch event"
                         [] res.op = "updateCalendarEvent" -> "Failed to update event"
                         [] res.op = "deleteCalendarEvent" -> "Failed to delete event"]

\* C13 witness: a create whose insert failed with a connection error
C13_Witness ==
  /\ res.op = "createCalendarEvent"
  /\ res.err.code = "08006"
  /\ res.err.type # "ValidationError"
  /\ res.status = 500

C15_FailedLoadLeavesCacheEmpty ==
  [][ (call'.fn = "loadOpenAPISpec" /\ cachedSpec = NoSpec)
      => /\ call'.read
         /\ file.kind = "missing"
              => /\ call'.threw
                 /\ call'.message = "ENOENT: no such file or directory"
                 /\ cachedSpec' = NoSpec
         /\ file.kind = "malformed"
              => /\ call'.threw
                 /\ call'.message = "YAMLException: bad indentation of a mapping entry"
                 /\ cachedSpec' = NoSpec
         /\ file.kind = "yaml"
              => /\ ~call'.threw
                 /\ cachedSpec'.doc = file.doc ]_vars

\* C15 witness: a load that failed on a malformed file, the cache empty
\* after it, when an earlier load had succeeded
C15_Witness ==
  /\ call.fn = "loadOpenAPISpec"
  /\ call.threw
  /\ file.kind = "malformed"
  /\ cachedSpec = NoSpec
  /\ objects >= 1

C17_StorageSchemaAddsTwoProperties ==
  (call.fn = "jsonSchema" /\ cachedSpec # NoSpec) =>
    LET doc == cachedSpec.doc
        hasEvent == /\ "components" \in DOMAIN doc
                    /\ "schemas" \in DOMAIN doc.components
                    /\ "Event" \in DOMAIN doc.components.schemas
    IN  /\ ~hasEvent =>
             /\ call.threw
             /\ call.message = "Event schema not found in OpenAPI specification"
        /\ hasEvent =>
             LET event == doc.components.schemas["Event"]
                 declared == IF "properties" \in DOMAIN event
                               THEN DOMAIN event["properties"] ELSE {}
                 schema == call.value
             IN  /\ ~call.threw
                 /\ DOMAIN schema = (DOMAIN event) \cup {"properties"}
                 /\ \A k \in (DOMAIN event) \ {"properties"} : schema[k] = event[k]
                 /\ DOMAIN schema["properties"] = declared \cup {"createdAt", "updatedAt"}
                 /\ \A k \in declared : schema["properties"][k] = event["properties"][k]
                 /\ schema["properties"]["createdAt"] = [type |-> "string", format |-> "date-time"]
                 /\ schema["properties"]["updatedAt"] = [type |-> "string", format |-> "date-time"]
                 /\ "required" \in DOMAIN schema =>
                      schema["required"] \cap {"createdAt", "updatedAt"} = {}

\* C17 witness: the storage schema of an Event schema that has required fields
C17_Witness ==
  /\ call.fn = "jsonSchema"
  /\ ~call.threw
  /\ "required" \in DOMAIN call.value
  /\ "title" \in call.value["required"]
  /\ "createdAt" \in DOMAIN call.value["properties"]

(***************************************************************************)
(* Properties of the Event model's hooks and serializer (ModelSpec).       *)
(***************************************************************************)
\* C18: $beforeInsert never overwrites an id the record carries, whatever
\* its value; it assigns a generated identifier only to a record without id.
C18_SuppliedIdIsPreserved ==
  call.fn = "$beforeInsert" =>
    /\ ("id" \in DOMAIN call.arg /\ call.arg["id"] # Null)
         => call.value["id"] = call.arg["id"]
    /\ "id" \notin DOMAIN call.arg => call.value["id"] \in Ids

\* C19: $beforeUpdate sets updatedAt to the current instant and leaves
\* every other field of the record as it was, id and createdAt included,
\* adding or removing no field.
C19_UpdateHookTouchesUpdatedAtOnly ==
  call.fn = "$beforeUpdate" =>
    /\ call.value["updatedAt"] = toISOString(now)
    /\ DOMAIN call.value = (DOMAIN call.arg) \cup {"updatedAt"}
    /\ \A k \in (DOMAIN call.arg) \ {"updatedAt"} : call.value[k] = call.arg[k]

\* C19 witness: the hook ran on a record with an id, a createdAt and an
\* older updatedAt
C19_Witness ==
  /\ call.fn = "$beforeUpdate"
  /\ {"id", "createdAt", "updatedAt"} \subseteq DOMAIN call.arg
  /\ call.arg["id"] = "evt_a"
  /\ call.value["updatedAt"] # call.arg["updatedAt"]

\* C20: toJSON is idempotent: applied to its own result it returns that
\* result.
C20_ToJSONIsIdempotent ==
  call.fn = "toJSON" =>
    /\ call.value = toJSON(call.arg)
    /\ toJSON(call.value) = call.value

\* C20 witness: toJSON removed both internal fields and a null-valued field
C20_Witness ==
  /\ call.fn = "toJSON"
  /\ InternalFields \subseteq DOMAIN call.arg
  /\ "location" \in DOMAIN call.arg
  /\ "location" \notin DOMAIN call.value
  /\ (DOMAIN call.value) \cap InternalFields = {}

\* C21: for every record, the keys of toJSON(record) are the record's keys
\* minus createdAt, minus updatedAt and minus every key whose value is null,
\* and each kept key has its value unchanged; so the event answered for a
\* create of title, startDate and endDate alone has no description and no
\* location key.
C21_ToJSONKeysAndValues ==
  call.fn = "toJSON" =>
    /\ DOMAIN call.value =
         {k \in (DOMAIN call.arg) \ {"createdAt", "updatedAt"} : call.arg[k] # Null}
    /\ \A k \in DOMAIN call.value : call.value[k] = call.arg[k]
    /\ (\E t \in Instants, gen \in Ids : call.arg = beforeInsert(MinimalBody, t, gen))
         => DOMAIN call.value = {"id", "title", "startDate", "endDate"}

\* C21 witnesses: toJSON ran on the model inserted for a create of the
\* required fields alone, and on a record holding a null
C21_Witness ==
  /\ call.fn = "toJSON"
  /\ call.arg = beforeInsert(MinimalBody, 0, "evt_b")
  /\ DOMAIN call.value = {"id", "title", "startDate", "endDate"}

(***************************************************************************)
(* Properties of the process (ProcSpec).                                   *)
(***************************************************************************)
\* C22: graceful shutdown ordering: one pool is made at startup; after a
\* SIGINT or SIGTERM the process stops accepting requests before it closes
\* the pool, so no request is accepted while the pool is closing or closed;
\* and the process exits only when the pool's teardown has completed.
C22_GracefulShutdownOrder ==
  /\ proc.pools = 1
  /\ proc.exited => proc.pool = "destroyed"
  /\ proc.pool # "open" => ~proc.listening

(***************************************************************************)
(* Properties of a handler run (HandlerSpec).                              *)
(***************************************************************************)
\* C23: in every failure branch of every operation handler (404, 400, 409,
\* 500) the error is logged before the response is written, and no handler
\* makes its storage call a second time.
C23_FailuresLoggedBeforeResponse ==
  (res.via = "direct" /\ res.status >= 400) =>
    /\ \E i, j \in DOMAIN effects :
         i < j /\ effects[i] = Log /\ effects[j] = Write(res.status)
    /\ Cardinality({i \in DOMAIN effects : effects[i] = Query}) <= 1

\* C26: every run of an operation handler makes at most one storage call
\* and writes exactly one response, with one status and one body, on every
\* path: success, not found, validation error, conflict, unexpected error.
C26_OneStorageCallOneResponse ==
  res.via = "direct" =>
    /\ Cardinality({i \in DOMAIN effects : effects[i] = Query}) = res.calls
    /\ res.calls <= 1
    /\ Cardinality({i \in DOMAIN effects : effects[i].do = "res.status.json"}) = 1
    /\ effects[Len(effects)] = Write(res.status)

\* C26 witness: the not-found path of an update, whose response is written
\* with a return inside the try block
C26_Witness ==
  /\ res.via = "direct"
  /\ res.op = "updateCalendarEvent"
  /\ res.status = 404
  /\ effects = <<Query, Write(404)>>

(***************************************************************************)
(* Properties of the migrations (MigrationSpec).                           *)
(***************************************************************************)
\* C24: every migration is reversible: a down that directly follows the up
\* of the same migration leaves the events table as it was before that up;
\* for the id-to-UUID migration every event has its original id again.
C24_UpThenDownRestores ==
  [][(call.fn = "up" /\ store = call.value /\ call'.fn = "down"
        /\ Len(migrations') = Len(migrations) - 1)
       => store' = call.arg]_vars

(***************************************************************************)
(* Properties of the configuration (ConfigSpec).                           *)
(***************************************************************************)
\* C25: in each of the environments development, test and production, every
\* option that is unset takes its documented default (port 3000, environment
\* development, host localhost, database port 5432, database
\* calendar_app_dev, user postgres, password postgres, SSL off); SSL is on
\* only when DB_SSL is exactly 'true'; and the exported current
\* configuration is the one NODE_ENV selects.
C25_DocumentedDefaultsApply ==
  /\ call.fn = "index" =>
       /\ call.arg.PORT = Unset => call.value.port = 3000
       /\ call.arg.NODE_ENV = Unset => call.value.environment = "development"
  /\ call.fn = "config/database" =>
       /\ \A e \in {"development", "test", "production"} :
            LET c == call.value.config[e].connection
            IN  /\ call.arg.DB_HOST = Unset => c.host = "localhost"
                /\ call.arg.DB_PORT = Unset => c.port = 5432
                /\ call.arg.DB_NAME = Unset => c.database = "calendar_app_dev"
                /\ call.arg.DB_USER = Unset => c.user = "postgres"
                /\ call.arg.DB_PASSWORD = Unset => c.password = "postgres"
                /\ ("ssl" \in DOMAIN c /\ c.ssl.enabled) => call.arg.DB_SSL = "true"
       /\ call.arg.NODE_ENV \in {"development", "test", "production"} =>
            call.value.current = call.value.config[call.arg.NODE_ENV]
       /\ call.arg.NODE_ENV = Unset => call.value.current = call.value.config["development"]

(***************************************************************************)
(* Frame of the cached contract document (UtilSpec).                       *)
(***************************************************************************)
\* C27: no operation changes the cached contract document in place: the
\* cached object keeps its content as long as it is the cached object;
\* Event.jsonSchema returns a new schema and leaves the cached Event schema,
\* its properties and its required list as they were; the raw-schema handler
\* only reads the document; and the cache variable changes only by a load
\* on an empty cache and by clearCache, which empties it.
C27_CacheNeverMutatedInPlace ==
  [][ /\ cachedSpec'.ref = cachedSpec.ref => cachedSpec' = cachedSpec
      /\ cachedSpec' # cachedSpec
           => \/ /\ cachedSpec = NoSpec
                 /\ call'.fn \in {"loadOpenAPISpec", "getOpenAPISchema", "jsonSchema"}
                 /\ call'.read
                 /\ cachedSpec'.doc = file.doc
              \/ /\ call'.fn = "clearCache"
                 /\ cachedSpec' = NoSpec
      /\ (call'.fn = "jsonSchema" /\ ~call'.threw)
           => /\ cachedSpec'.doc = (IF cachedSpec = NoSpec THEN file.doc ELSE cachedSpec.doc)
              /\ "createdAt" \in DOMAIN call'.value["properties"]
              /\ call'.value # cachedSpec'.doc["components"]["schemas"]["Event"]
      /\ (res' # res /\ res'.op = "getOpenAPISchema" /\ res'.status = 200)
           => /\ res'.body = cachedSpec'.doc
              /\ cachedSpec # NoSpec => cachedSpec' = cachedSpec ]_vars

\* C27 witness: Event.jsonSchema answered from a loaded cache, whose Event
\* schema has a required list and no createdAt property after the call
C27_Witness ==
  /\ call.fn = "jsonSchema"
  /\ ~call.threw
  /\ ~call.read
  /\ cachedSpec # NoSpec
  /\ "required" \in DOMAIN cachedSpec.doc["components"]["schemas"]["Event"]
  /\ "createdAt" \notin DOMAIN cachedSpec.doc["components"]["schemas"]["Event"]["properties"]
  /\ "createdAt" \in DOMAIN call.value["properties"]

(***************************************************************************)
(* Properties of two creates in flight (RaceSpec).                         *)
(***************************************************************************)
\* C28: when two createCalendarEvent requests with the same id are in
\* flight together, then in every order of their INSERT statements one is
\* answered 201 and the other 409, and the table then holds one event with
\* that id, with the fields of the request that was answered 201. (No
\* event has the id before the two requests, and neither INSERT fails for
\* another reason.)
C28_SameIdCreatesOneWins ==
  ( /\ DOMAIN pending = Slots
    /\ \A s \in Slots : pending[s].pc = "done"
    /\ pending[1].body["id"] = pending[2].body["id"] )
  => \E w \in Slots :
       LET l == CHOOSE s \in Slots : s # w
           id == pending[w].body["id"]
       IN  /\ pending[w].status = 201
           /\ pending[l].status = 409
           /\ DOMAIN store = {id}
           /\ store[id] = ToRow(beforeInsert(pending[w].body, pending[w].t, None))

\* C28 witness: both requests were waiting for their INSERT at once, the
\* second client's statement ran first, and the first client got the 409
C28_Witness ==
  /\ DOMAIN pending = Slots
  /\ \A s \in Slots : pending[s].pc = "done"
  /\ pending[1].body["id"] = pending[2].body["id"]
  /\ pending[1].status = 409
  /\ pending[2].status = 201
  /\ store[pending[2].body["id"]]["description"] = "daily"

(***************************************************************************)
(* Lifecycle of a deleted event (Spec).                                    *)
(***************************************************************************)
\* C29: right after deleteCalendarEvent(i) was answered 200, a
\* getCalendarEvent(i), updateCalendarEvent(i) or deleteCalendarEvent(i)
\* whose storage call does not fail is answered 404, and unless the step is
\* a createCalendarEvent the table has no event i after it: an update does
\* not bring a deleted event back.
C29_DeletedStaysDeleted ==
  [][ ( /\ res.op = "deleteCalendarEvent"
        /\ res.status = 200
        /\ res'.err = NoError )
      => /\ ( /\ res'.op \in {"getCalendarEvent", "updateCalendarEvent",
                               "deleteCalendarEvent"}
              /\ res'.id = res.id )
              => res'.status = 404
         /\ res'.op # "createCalendarEvent" => res.id \notin DOMAIN store' ]_vars

(***************************************************************************)
(* Properties of the schema cleaning (CleanSpec).                          *)
(***************************************************************************)
\* C30: cleanSchemaForAjv removes annotation keywords only: the cleaned
\* schema has the same property names under properties as the schema, each
\* with its constraints, and neither example nor description annotations;
\* so validateRequest rejects a body whose field breaks the constraint its
\* property declares, the property named description included.
C30_CleaningKeepsProperties ==
  /\ call.fn = "cleanSchemaForAjv" =>
       /\ DOMAIN call.value["properties"] = DOMAIN call.arg["properties"]
       /\ \A n \in DOMAIN call.value["properties"] :
            /\ call.value["properties"][n]["maxLength"] = call.arg["properties"][n]["maxLength"]
            /\ "example" \notin DOMAIN call.value["properties"][n]
       /\ (DOMAIN call.value) \cap OpenApiKeywords = {}
  /\ call.fn = "validateRequest" =>
       \A n \in (DOMAIN call.arg.body) \cap (DOMAIN call.arg.schema["properties"]) :
         call.arg.body[n] > call.arg.schema["properties"][n]["maxLength"]
           => call.value.outcome = "validateRequest"

====
